---- MODULE Spec2Model ----
(***************************************************************************)
(* weather-utils: unit-tagged temperatures (Celsius / Fahrenheit), the     *)
(* composite measurements built on them, their conversions, their          *)
(* tolerance-based equality and the two physical formulas.                 *)
(*                                                                         *)
(* Every magnitude is an IEEE-754 binary32 value (Rust f32).  A finite     *)
(* value is the record [k |-> "fin", s, e, m] standing for                 *)
(* (-1)^s * m * 2^e with m < 2^24, kept canonical (m >= 2^23, or e = -149  *)
(* for a subnormal, or m = 0 and e = 0 for a zero).  Infinities and NaN    *)
(* are the records with k = "inf" and k = "nan".  Arithmetic rounds to     *)
(* nearest, ties to even, as the hardware does.                            *)
(*                                                                         *)
(* The natural exponential and the power function come from the linked     *)
(* math library; they are kept as uninterpreted terms (k = "sym") except   *)
(* on the arguments where IEEE-754 fixes the result exactly.               *)
(***************************************************************************)
EXTENDS Integers, Sequences, FiniteSets, TLC

(***************************************************************************)
(* binary32 values                                                         *)
(***************************************************************************)
MANTISSA_DIGITS == 24
MIN_EXP2 == -149
MAX_EXP2 == 104

Pow2(n) == 2 ^ n

Max2(x, y) == IF x >= y THEN x ELSE y
Min2(x, y) == IF x <= y THEN x ELSE y

RECURSIVE BitLen(_)
BitLen(n) == IF n = 0 THEN 0 ELSE 1 + BitLen(n \div 2)

Fin(s, m, e) == [k |-> "fin", s |-> s, e |-> e, m |-> m]
Zero(s) == Fin(s, 0, 0)
Inf(s) == [k |-> "inf", s |-> s, e |-> 0, m |-> 0]
NaN == [k |-> "nan", s |-> 0, e |-> 0, m |-> 0]
Sym(op, a, b) == [k |-> "sym", op |-> op, a |-> a, b |-> b]

IsFin(x) == x.k = "fin"
IsZero(x) == x.k = "fin" /\ x.m = 0
IsNaN(x) == x.k = "nan"
IsSym(x) == x.k = "sym"
is_infinite(x) == x.k = "inf"

\* Round the exact magnitude (sig + f) * 2^e, 0 <= f < 1, sticky <=> f > 0, to
\* the nearest binary32, ties to even.  A caller that sets sticky passes at
\* least 25 significant bits, so that the fraction never decides alone.
Round(s, sig, e, sticky) ==
  IF sig = 0 THEN Zero(s)
  ELSE LET bl == BitLen(sig)
           sh == Max2(bl - MANTISSA_DIGITS, MIN_EXP2 - e)
       IN IF sh <= 0
          THEN LET up == Min2(MANTISSA_DIGITS - bl, e - MIN_EXP2)
               IN IF e - up > MAX_EXP2 THEN Inf(s)
                  ELSE Fin(s, sig * Pow2(up), e - up)
          ELSE IF sh > 30 THEN Zero(s)
          ELSE LET q == sig \div Pow2(sh)
                   r == sig % Pow2(sh)
                   half == Pow2(sh - 1)
                   inc == IF r > half \/ (r = half /\ (sticky \/ q % 2 = 1))
                          THEN 1 ELSE 0
                   m1 == q + inc
                   m2 == IF m1 = Pow2(MANTISSA_DIGITS) THEN Pow2(MANTISSA_DIGITS - 1) ELSE m1
                   e2 == IF m1 = Pow2(MANTISSA_DIGITS) THEN e + sh + 1 ELSE e + sh
               IN IF m2 = 0 THEN Zero(s)
                  ELSE IF e2 > MAX_EXP2 THEN Inf(s)
                  ELSE Fin(s, m2, e2)

\* A nonzero finite value with its significand shifted up to 24 bits.
Norm(x) ==
  LET up == MANTISSA_DIGITS - BitLen(x.m)
  IN Fin(x.s, x.m * Pow2(up), x.e - up)

FNeg(x) ==
  IF IsNaN(x) THEN x
  ELSE IF IsSym(x) THEN Sym("neg", x, x)
  ELSE [x EXCEPT !.s = 1 - x.s]

abs(x) ==
  IF IsNaN(x) THEN x
  ELSE IF IsSym(x) THEN Sym("abs", x, x)
  ELSE [x EXCEPT !.s = 0]

\* |x| < |y| for finite canonical values.
MagLt(x, y) ==
  IF y.m = 0 THEN FALSE
  ELSE IF x.m = 0 THEN TRUE
  ELSE x.e < y.e \/ (x.e = y.e /\ x.m < y.m)

\* The sum of nonzero finite values.
AddFin(x, y) ==
  LET nx == Norm(x)
      ny == Norm(y)
      swap == nx.e < ny.e \/ (nx.e = ny.e /\ nx.m < ny.m)
      a == IF swap THEN ny ELSE nx
      b == IF swap THEN nx ELSE ny
      d == a.e - b.e
      A == a.m * 8
      B == IF d > 27 THEN 0 ELSE (b.m * 8) \div Pow2(d)
      st == IF d > 27 THEN TRUE ELSE (b.m * 8) % Pow2(d) # 0
  IN IF a.s = b.s THEN Round(a.s, A + B, a.e - 3, st)
     ELSE IF A = B /\ ~st THEN Zero(0)
     ELSE Round(a.s, IF st THEN A - B - 1 ELSE A - B, a.e - 3, st)

FAdd(x, y) ==
  IF IsNaN(x) \/ IsNaN(y) THEN NaN
  ELSE IF IsSym(x) \/ IsSym(y) THEN Sym("add", x, y)
  ELSE IF is_infinite(x) THEN (IF is_infinite(y) /\ y.s # x.s THEN NaN ELSE x)
  ELSE IF is_infinite(y) THEN y
  ELSE IF IsZero(x) /\ IsZero(y) THEN Zero(IF x.s = 1 /\ y.s = 1 THEN 1 ELSE 0)
  ELSE IF IsZero(x) THEN y
  ELSE IF IsZero(y) THEN x
  ELSE AddFin(x, y)

FSub(x, y) ==
  IF IsSym(x) \/ IsSym(y) THEN (IF IsNaN(x) \/ IsNaN(y) THEN NaN ELSE Sym("sub", x, y))
  ELSE FAdd(x, FNeg(y))

\* The product of nonzero finite values: the 48-bit product of the two
\* significands from 12-bit limbs, cut to 26 bits and a sticky bit.
MulFin(x, y) ==
  LET nx == Norm(x)
      ny == Norm(y)
      x1 == nx.m \div 4096
      x0 == nx.m % 4096
      y1 == ny.m \div 4096
      y0 == ny.m % 4096
      mid == x1 * y0 + x0 * y1
      low == (mid % 4096) * 4096 + x0 * y0
      hi == x1 * y1 + mid \div 4096 + low \div Pow2(24)
      lo == low % Pow2(24)
      s == IF nx.s = ny.s THEN 0 ELSE 1
  IN Round(s, hi * 4 + lo \div Pow2(22), nx.e + ny.e + 22, lo % Pow2(22) # 0)

FMul(x, y) ==
  IF IsNaN(x) \/ IsNaN(y) THEN NaN
  ELSE IF IsSym(x) \/ IsSym(y) THEN Sym("mul", x, y)
  ELSE LET s == IF x.s = y.s THEN 0 ELSE 1
       IN IF is_infinite(x) \/ is_infinite(y)
          THEN (IF IsZero(x) \/ IsZero(y) THEN NaN ELSE Inf(s))
          ELSE IF IsZero(x) \/ IsZero(y) THEN Zero(s)
          ELSE MulFin(x, y)

\* n further quotient bits of rem / den, rem < den < 2^24: <<quotient, remainder>>.
RECURSIVE DivBits(_, _, _, _)
DivBits(q, rem, den, n) ==
  IF n = 0 THEN <<q, rem>>
  ELSE IF 2 * rem >= den THEN DivBits(2 * q + 1, 2 * rem - den, den, n - 1)
  ELSE DivBits(2 * q, 2 * rem, den, n - 1)

\* The quotient of nonzero finite values, from 26 fraction bits and a sticky bit.
DivFin(x, y) ==
  LET nx == Norm(x)
      ny == Norm(y)
      qr == DivBits(nx.m \div ny.m, nx.m % ny.m, ny.m, 26)
      s == IF nx.s = ny.s THEN 0 ELSE 1
  IN Round(s, qr[1], nx.e - ny.e - 26, qr[2] # 0)

FDiv(x, y) ==
  IF IsNaN(x) \/ IsNaN(y) THEN NaN
  ELSE IF IsSym(x) \/ IsSym(y) THEN Sym("div", x, y)
  ELSE LET s == IF x.s = y.s THEN 0 ELSE 1
       IN IF is_infinite(x) THEN (IF is_infinite(y) THEN NaN ELSE Inf(s))
          ELSE IF is_infinite(y) THEN Zero(s)
          ELSE IF IsZero(y) THEN (IF IsZero(x) THEN NaN ELSE Inf(s))
          ELSE IF IsZero(x) THEN Zero(s)
          ELSE DivFin(x, y)

\* x < y on numbers; a comparison with NaN is false.
FLt(x, y) ==
  IF IsNaN(x) \/ IsNaN(y) \/ IsSym(x) \/ IsSym(y) THEN FALSE
  ELSE IF IsZero(x) /\ IsZero(y) THEN FALSE
  ELSE IF x.s # y.s THEN x.s = 1
  ELSE IF x.k = "inf" \/ y.k = "inf"
       THEN (IF x.s = 0 THEN x.k = "fin" /\ y.k = "inf" ELSE x.k = "inf" /\ y.k = "fin")
  ELSE IF x.s = 0 THEN MagLt(x, y) ELSE MagLt(y, x)

\* x == y on numbers: the two zeros are equal, NaN equals nothing.
FEq(x, y) ==
  IF IsNaN(x) \/ IsNaN(y) \/ IsSym(x) \/ IsSym(y) THEN FALSE
  ELSE (IsZero(x) /\ IsZero(y)) \/ x = y

FLe(x, y) == FLt(x, y) \/ FEq(x, y)

\* The value a decimal literal n/d denotes: the binary32 nearest to n/d
\* (n and d below 2^24, so both are exact and one division rounds once).
Lit(n, d) ==
  LET num == IF n < 0 THEN -n ELSE n
      s == IF n < 0 THEN 1 ELSE 0
  IN IF num = 0 THEN Zero(0)
     ELSE FDiv(Round(s, num, 0, FALSE), Round(0, d, 0, FALSE))

EPSILON == Fin(0, Pow2(23), -46)
F32_MAX == Fin(0, Pow2(24) - 1, MAX_EXP2)

\* The next binary32 above a positive normal value.
NextUp(x) ==
  IF x.m + 1 = Pow2(MANTISSA_DIGITS) THEN Fin(x.s, Pow2(MANTISSA_DIGITS - 1), x.e + 1)
  ELSE Fin(x.s, x.m + 1, x.e)

\* The literals of the source, as the compiler rounds them to f32.
F_1_8 == Lit(18, 10)
F_32_0 == Lit(32, 1)
F_0_55555 == Lit(55555, 100000)
F_0_01 == Lit(1, 100)
F_6_112 == Lit(6112, 1000)
F_17_67 == Lit(1767, 100)
F_243_5 == Lit(2435, 10)
F_2_1674 == Lit(21674, 10000)
F_273_15 == Lit(27315, 100)
F_1013_25 == Lit(101325, 100)
F_5_257 == Lit(5257, 1000)
F_0_0065 == Lit(65, 10000)

(***************************************************************************)
(* The math capability (core / libm): only the exactly specified results   *)
(* are computed, every other result is the term of its arguments.          *)
(***************************************************************************)
One == Fin(0, Pow2(23), -23)

exp(x) ==
  IF IsNaN(x) THEN NaN
  ELSE IF IsSym(x) THEN Sym("exp", x, x)
  ELSE IF is_infinite(x) THEN (IF x.s = 0 THEN x ELSE Zero(0))
  ELSE IF IsZero(x) THEN One
  ELSE Sym("exp", x, x)

\* x^y for a finite, positive, non-integer exponent y.
powf(x, y) ==
  IF x = One THEN One
  ELSE IF IsNaN(x) \/ IsNaN(y) THEN NaN
  ELSE IF IsSym(x) \/ IsSym(y) THEN Sym("powf", x, y)
  ELSE IF IsZero(x) THEN Zero(0)
  ELSE IF x.s = 1 THEN NaN
  ELSE IF is_infinite(x) THEN x
  ELSE Sym("powf", x, y)

(***************************************************************************)
(* approx::relative_eq!                                                    *)
(***************************************************************************)
relative_eq(self, other, epsilon, max_relative) ==
  IF FEq(self, other) THEN TRUE
  ELSE IF is_infinite(self) \/ is_infinite(other) THEN FALSE
  ELSE LET abs_diff == abs(FSub(self, other))
           abs_self == abs(self)
           abs_other == abs(other)
           largest == IF FLt(abs_self, abs_other) THEN abs_other ELSE abs_self
       IN IF FLe(abs_diff, epsilon) THEN TRUE
          ELSE FLe(abs_diff, FMul(largest, max_relative))

(***************************************************************************)
(* unit.rs: the two temperature units                                      *)
(***************************************************************************)
Celsius(v) == [unit |-> "Celsius", v |-> v]
Fahrenheit(v) == [unit |-> "Fahrenheit", v |-> v]

convert_celsius_to_fahrenheit(temperature) ==
  FAdd(FMul(temperature, F_1_8), F_32_0)

\* Mutant: the offset of 32 is forgotten.
convert_fahrenheit_to_celsius_no_offset(temperature) == FMul(temperature, F_0_55555)

convert_fahrenheit_to_celsius(temperature) ==
  FMul(FSub(temperature, F_32_0), F_0_55555)

Celsius_celsius(self) == self.v
Celsius_fahrenheit(self) == convert_celsius_to_fahrenheit(self.v)
\* Mutant: the stored Fahrenheit magnitude is returned as it is.
Fahrenheit_celsius_unconverted(self) == self.v
Fahrenheit_celsius(self) == convert_fahrenheit_to_celsius(self.v)
Fahrenheit_fahrenheit(self) == self.v

\* The TemperatureUnit trait: the implementation of the value's own type.
TemperatureUnit_celsius(u) ==
  IF u.unit = "Celsius" THEN Celsius_celsius(u) ELSE Fahrenheit_celsius(u)
TemperatureUnit_fahrenheit(u) ==
  IF u.unit = "Celsius" THEN Celsius_fahrenheit(u) ELSE Fahrenheit_fahrenheit(u)

\* Mutant: the conversion divides by 1.8 instead of multiplying by 0.55555.
Celsius_from_divided(value) == Celsius(FDiv(FSub(value.v, F_32_0), F_1_8))
Celsius_from(value) == Celsius(convert_fahrenheit_to_celsius(value.v))
Fahrenheit_from(value) == Fahrenheit(convert_celsius_to_fahrenheit(value.v))

\* Mutant: the derived, exact equality.
Celsius_eq_exact(self, other) == FEq(self.v, other.v)
Celsius_eq(self, other) == relative_eq(self.v, other.v, F_0_01, EPSILON)
Fahrenheit_eq(self, other) == relative_eq(self.v, other.v, F_0_01, EPSILON)

(***************************************************************************)
(* lib.rs: Temperature<U>                                                  *)
(***************************************************************************)
Temperature(value) == [value |-> value]

Temperature_celsius(self) == TemperatureUnit_celsius(self.value)
Temperature_fahrenheit(self) == TemperatureUnit_fahrenheit(self.value)

\* Mutant: the two values are compared by their Fahrenheit readings.
Temperature_eq_fahrenheit(self, other) ==
  relative_eq(Temperature_fahrenheit(self), Temperature_fahrenheit(other), F_0_01, EPSILON)

\* Mutant: the right-hand side is read in Fahrenheit.
Temperature_eq_mixed(self, other) ==
  relative_eq(Temperature_celsius(self), Temperature_fahrenheit(other), F_0_01, EPSILON)

Temperature_eq(self, other) ==
  relative_eq(Temperature_celsius(self), Temperature_celsius(other), F_0_01, EPSILON)

Temperature_Celsius_new(value) == Temperature(Celsius(value))
Temperature_Fahrenheit_new(value) == Temperature(Fahrenheit(value))

\* Mutant: the magnitude is re-tagged without being converted.
Temperature_Celsius_from_retagged(value) == Temperature(Celsius(value.value.v))
Temperature_Celsius_from(value) == Temperature(Celsius_from(value.value))
Temperature_Fahrenheit_from(value) == Temperature(Fahrenheit_from(value.value))

(***************************************************************************)
(* lib.rs: TemperatureAndRelativeHumidity<U>                               *)
(***************************************************************************)
calculate_absolute_humidity(temperature, relative_humidity) ==
  FDiv(FMul(FMul(FMul(F_6_112,
                      exp(FDiv(FMul(F_17_67, temperature),
                               FAdd(temperature, F_243_5)))),
                 relative_humidity),
            F_2_1674),
       FAdd(F_273_15, temperature))

\* Mutant: the formula is given the Fahrenheit reading.
TemperatureAndRelativeHumidity_absolute_humidity_fahrenheit(self) ==
  calculate_absolute_humidity(Temperature_fahrenheit(self.temperature), self.relative_humidity)

TemperatureAndRelativeHumidity_absolute_humidity(self) ==
  calculate_absolute_humidity(Temperature_celsius(self.temperature), self.relative_humidity)

TemperatureAndRelativeHumidity_eq(self, other) ==
  /\ relative_eq(self.relative_humidity, other.relative_humidity, EPSILON, EPSILON)
  /\ Temperature_eq(self.temperature, other.temperature)

TemperatureAndRelativeHumidity_Celsius_new(temperature, relative_humidity) ==
  [relative_humidity |-> relative_humidity,
   temperature |-> Temperature_Celsius_new(temperature)]

TemperatureAndRelativeHumidity_Fahrenheit_new(temperature, relative_humidity) ==
  [relative_humidity |-> relative_humidity,
   temperature |-> Temperature_Fahrenheit_new(temperature)]

TemperatureAndRelativeHumidity_Celsius_from(value) ==
  TemperatureAndRelativeHumidity_Celsius_new(Temperature_celsius(value.temperature),
                                             value.relative_humidity)

\* Mutant: the new Fahrenheit value is given the Celsius reading.
TemperatureAndRelativeHumidity_Fahrenheit_from_celsius(value) ==
  TemperatureAndRelativeHumidity_Fahrenheit_new(Temperature_celsius(value.temperature),
                                                value.relative_humidity)

TemperatureAndRelativeHumidity_Fahrenheit_from(value) ==
  TemperatureAndRelativeHumidity_Fahrenheit_new(Temperature_fahrenheit(value.temperature),
                                                value.relative_humidity)

(***************************************************************************)
(* lib.rs: TemperatureAndBarometricPressure<U>                             *)
(***************************************************************************)
\* Mutant: the reference pressure is written 1013.0.
calculate_altitude_1013(temperature, barometric_pressure) ==
  FDiv(FMul(FSub(powf(FDiv(Lit(1013, 1), barometric_pressure),
                      FDiv(One, F_5_257)),
                 One),
            FAdd(temperature, F_273_15)),
       F_0_0065)

calculate_altitude(temperature, barometric_pressure) ==
  FDiv(FMul(FSub(powf(FDiv(F_1013_25, barometric_pressure),
                      FDiv(One, F_5_257)),
                 One),
            FAdd(temperature, F_273_15)),
       F_0_0065)

TemperatureAndBarometricPressure_altitude(self) ==
  calculate_altitude(Temperature_celsius(self.temperature), self.barometric_pressure)

\* #[derive(PartialEq)]: the fields compared with ==, in declaration order.
TemperatureAndBarometricPressure_eq(self, other) ==
  /\ FEq(self.barometric_pressure, other.barometric_pressure)
  /\ Temperature_eq(self.temperature, other.temperature)

TemperatureAndBarometricPressure_Celsius_new(temperature, barometric_pressure) ==
  [barometric_pressure |-> barometric_pressure,
   temperature |-> Temperature_Celsius_new(temperature)]

TemperatureAndBarometricPressure_Fahrenheit_new(temperature, barometric_pressure) ==
  [barometric_pressure |-> barometric_pressure,
   temperature |-> Temperature_Fahrenheit_new(temperature)]

TemperatureAndBarometricPressure_Celsius_from(value) ==
  TemperatureAndBarometricPressure_Celsius_new(Temperature_celsius(value.temperature),
                                               value.barometric_pressure)

TemperatureAndBarometricPressure_Fahrenheit_from(value) ==
  TemperatureAndBarometricPressure_Fahrenheit_new(Temperature_fahrenheit(value.temperature),
                                                  value.barometric_pressure)

(***************************************************************************)
(* A caller: it constructs one value, converts it between the units,       *)
(* queries it, compares it, and lets it go out of scope.                   *)
(***************************************************************************)
MaxConv == 2
SweepN == 87

\* Magnitudes of the unit tests, and the neighbourhood of the tolerance.
TestMags ==
  {Lit(0, 1), Lit(1573, 100), Lit(-749, 100), Lit(375, 10), Lit(32, 1), Lit(6031, 100),
   Lit(1852, 100), Lit(995, 10), Lit(1, 1000), Lit(4, 1000), Lit(15728, 1000),
   Lit(103, 10), Lit(9, 100), Lit(389, 10), Lit(32001, 1000), Lit(32004, 1000),
   Lit(60308, 1000), Lit(1009, 10), Lit(1, 100), Lit(32015, 1000)}

\* Large magnitudes, up to the largest finite f32.
LargeMags ==
  {Lit(900, 1), Lit(-900, 1), Lit(2000, 1), Lit(-2000, 1), Lit(83886, 1),
   Lit(100000, 1), Lit(131072, 1), NextUp(Lit(131072, 1)), Lit(16777215, 1),
   F32_MAX, FNeg(F32_MAX)}

\* -50.0, -47.7, ... in steps of 2.3.
Sweep == {Lit(-500 + 23 * i, 10) : i \in 0..SweepN}

EqMags == TestMags \cup LargeMags
TempMags == EqMags \cup Sweep
TempPartnerMags == {Lit(0, 1), Lit(32, 1), Lit(32015, 1000), Lit(2000, 1)}

CompTemps ==
  {Lit(2118, 100), Lit(7012, 100), Lit(-749, 100), Lit(1852, 100), Lit(375, 10),
   Lit(995, 10), Lit(1077, 10), Lit(32, 1), Lit(32015, 1000)}
\* and, for the altitude, a temperature below absolute zero and a large one.
PressureTemps == CompTemps \cup {Lit(-300, 1), Lit(16777215, 1)}
Humidities == {Lit(4559, 100), NextUp(Lit(4559, 100)), Lit(7319, 100)}
Pressures == {Lit(99132, 100), Lit(101325, 100), Lit(96281, 100)}

Units == {"Celsius", "Fahrenheit"}
Nothing == [ty |-> "none"]
NoResult == [op |-> "none"]

Obj(ty, val) == [ty |-> ty, val |-> val]

\* The unit value inside a value, its variant, its stored magnitude and, for a
\* composite, its other field.
UnitValue(o) ==
  IF o.ty = "Unit" THEN o.val
  ELSE IF o.ty = "Temperature" THEN o.val.value
  ELSE o.val.temperature.value
UnitOf(o) == UnitValue(o).unit
Mag(o) == UnitValue(o).v
Aux(o) ==
  IF o.ty = "TRH" THEN o.val.relative_humidity ELSE o.val.barometric_pressure
IsComposite(o) == o.ty \in {"TRH", "TBP"}

\* Construction of a value of type ty in unit u.
Construct(ty, u, t, x) ==
  IF ty = "Unit"
  THEN Obj(ty, IF u = "Celsius" THEN Celsius(t) ELSE Fahrenheit(t))
  ELSE IF ty = "Temperature"
  THEN Obj(ty, IF u = "Celsius" THEN Temperature_Celsius_new(t)
               ELSE Temperature_Fahrenheit_new(t))
  ELSE IF ty = "TRH"
  THEN Obj(ty, IF u = "Celsius" THEN TemperatureAndRelativeHumidity_Celsius_new(t, x)
               ELSE TemperatureAndRelativeHumidity_Fahrenheit_new(t, x))
  ELSE Obj(ty, IF u = "Celsius" THEN TemperatureAndBarometricPressure_Celsius_new(t, x)
               ELSE TemperatureAndBarometricPressure_Fahrenheit_new(t, x))

\* The values a comparison may take as its right-hand side: of cur's own type.
Partners(o) ==
  IF o.ty = "Unit" THEN {Construct("Unit", UnitOf(o), t, t) : t \in EqMags}
  ELSE IF o.ty = "Temperature"
  THEN {Construct("Temperature", UnitOf(o), t, t) : t \in TempPartnerMags}
  ELSE IF o.ty = "TRH"
  THEN {Construct("TRH", UnitOf(o), t, x) : t \in CompTemps, x \in Humidities}
  ELSE {Construct("TBP", UnitOf(o), t, x) : t \in CompTemps, x \in Pressures}

\* From<other unit>: the conversion of a value into the other unit.
into(o) ==
  LET toF == UnitOf(o) = "Celsius"
  IN IF o.ty = "Unit"
     THEN Obj(o.ty, IF toF THEN Fahrenheit_from(o.val) ELSE Celsius_from(o.val))
     ELSE IF o.ty = "Temperature"
     THEN Obj(o.ty, IF toF THEN Temperature_Fahrenheit_from(o.val)
                    ELSE Temperature_Celsius_from(o.val))
     ELSE IF o.ty = "TRH"
     THEN Obj(o.ty, IF toF THEN TemperatureAndRelativeHumidity_Fahrenheit_from(o.val)
                    ELSE TemperatureAndRelativeHumidity_Celsius_from(o.val))
     ELSE Obj(o.ty, IF toF THEN TemperatureAndBarometricPressure_Fahrenheit_from(o.val)
                    ELSE TemperatureAndBarometricPressure_Celsius_from(o.val))

\* From<T> for T: the conversion of a value into its own type.
from_self(o) == o

\* PartialEq::eq of the value's own type.
eq(a, b) ==
  IF a.ty = "Unit"
  THEN (IF a.val.unit = "Celsius" THEN Celsius_eq(a.val, b.val)
        ELSE Fahrenheit_eq(a.val, b.val))
  ELSE IF a.ty = "Temperature" THEN Temperature_eq(a.val, b.val)
  ELSE IF a.ty = "TRH" THEN TemperatureAndRelativeHumidity_eq(a.val, b.val)
  ELSE TemperatureAndBarometricPressure_eq(a.val, b.val)

\* The celsius() / fahrenheit() accessor of a unit value or a Temperature.
celsius(o) ==
  IF o.ty = "Unit" THEN TemperatureUnit_celsius(o.val) ELSE Temperature_celsius(o.val)
fahrenheit(o) ==
  IF o.ty = "Unit" THEN TemperatureUnit_fahrenheit(o.val)
  ELSE Temperature_fahrenheit(o.val)

VARIABLES cur, orig, prev, nConv, other, res
vars == <<cur, orig, prev, nConv, other, res>>

Init ==
  /\ cur = Nothing
  /\ orig = Nothing
  /\ prev = Nothing
  /\ nConv = 0
  /\ other = Nothing
  /\ res = NoResult

\* A constructor call: the value is fresh in scope.
NewUnit ==
  \E u \in Units, t \in EqMags :
    /\ cur = Nothing
    /\ cur' = Construct("Unit", u, t, t)
    /\ orig' = Construct("Unit", u, t, t)
    /\ prev' = Nothing
    /\ nConv' = 0
    /\ other' = Nothing
    /\ res' = NoResult

NewTemperature ==
  \E u \in Units, t \in TempMags :
    /\ cur = Nothing
    /\ cur' = Construct("Temperature", u, t, t)
    /\ orig' = Construct("Temperature", u, t, t)
    /\ prev' = Nothing
    /\ nConv' = 0
    /\ other' = Nothing
    /\ res' = NoResult

NewTemperatureAndRelativeHumidity ==
  \E u \in Units, t \in CompTemps, x \in Humidities :
    /\ cur = Nothing
    /\ cur' = Construct("TRH", u, t, x)
    /\ orig' = Construct("TRH", u, t, x)
    /\ prev' = Nothing
    /\ nConv' = 0
    /\ other' = Nothing
    /\ res' = NoResult

NewTemperatureAndBarometricPressure ==
  \E u \in Units, t \in PressureTemps, x \in Pressures :
    /\ cur = Nothing
    /\ cur' = Construct("TBP", u, t, x)
    /\ orig' = Construct("TBP", u, t, x)
    /\ prev' = Nothing
    /\ nConv' = 0
    /\ other' = Nothing
    /\ res' = NoResult

\* A query leaves the value as it is, so it is taken on a value that has no
\* result pending; the result state adds nothing the value state does not have.
Ready == cur # Nothing /\ res = NoResult

Into ==
  /\ Ready
  /\ nConv < MaxConv
  /\ prev' = cur
  /\ cur' = into(cur)
  /\ nConv' = nConv + 1
  /\ UNCHANGED <<orig, other, res>>

IntoSelf ==
  /\ Ready
  /\ IsComposite(cur)
  /\ prev' = cur
  /\ cur' = from_self(cur)
  /\ res' = [op |-> "into_self", ok |-> eq(from_self(cur), cur)]
  /\ UNCHANGED <<orig, nConv, other>>

CallCelsius ==
  /\ Ready
  /\ cur.ty \in {"Unit", "Temperature"}
  /\ res' = [op |-> "celsius", num |-> celsius(cur)]
  /\ UNCHANGED <<cur, orig, prev, nConv, other>>

CallFahrenheit ==
  /\ Ready
  /\ cur.ty \in {"Unit", "Temperature"}
  /\ res' = [op |-> "fahrenheit", num |-> fahrenheit(cur)]
  /\ UNCHANGED <<cur, orig, prev, nConv, other>>

CallAbsoluteHumidity ==
  /\ Ready
  /\ cur.ty = "TRH"
  /\ res' = [op |-> "absolute_humidity",
             num |-> TemperatureAndRelativeHumidity_absolute_humidity(cur.val)]
  /\ UNCHANGED <<cur, orig, prev, nConv, other>>

CallAltitude ==
  /\ Ready
  /\ cur.ty = "TBP"
  /\ res' = [op |-> "altitude", num |-> TemperatureAndBarometricPressure_altitude(cur.val)]
  /\ UNCHANGED <<cur, orig, prev, nConv, other>>

\* cur == b, for b the value as first constructed (when it has cur's unit) or a
\* value constructed for the comparison.
CallEq ==
  /\ Ready
  /\ \E b \in Partners(cur) \cup (IF UnitOf(orig) = UnitOf(cur) THEN {orig} ELSE {}) :
       /\ other' = b
       /\ res' = [op |-> "eq", ok |-> eq(cur, b)]
  /\ UNCHANGED <<cur, orig, prev, nConv>>

\* The value goes out of scope.
Drop ==
  /\ cur # Nothing
  /\ cur' = Nothing
  /\ orig' = Nothing
  /\ prev' = Nothing
  /\ nConv' = 0
  /\ other' = Nothing
  /\ res' = NoResult

Next ==
  \/ NewUnit
  \/ NewTemperature
  \/ NewTemperatureAndRelativeHumidity
  \/ NewTemperatureAndBarometricPressure
  \/ Into
  \/ IntoSelf
  \/ CallCelsius
  \/ CallFahrenheit
  \/ CallAbsoluteHumidity
  \/ CallAltitude
  \/ CallEq
  \/ Drop

Spec == Init /\ [][Next]_vars
(***************************************************************************)
(* Claims                                                                  *)
(***************************************************************************)
\* |x - y| <= 0.01, the difference and the bound taken in f32.
Within001(x, y) == FLe(abs(FSub(x, y)), F_0_01)

\* C1: celsius() of a Celsius value is its stored magnitude v and fahrenheit()
\* is v * 1.8 + 32; fahrenheit() of a Fahrenheit value is v and celsius() is
\* (v - 32) * 0.55555; Temperature<U> answers what the unit value it wraps
\* answers.
C1_Accessors ==
  /\ res.op = "celsius" =>
       /\ UnitOf(cur) = "Celsius" => res.num = Mag(cur)
       /\ UnitOf(cur) = "Fahrenheit" =>
            res.num = FMul(FSub(Mag(cur), F_32_0), F_0_55555)
       /\ res.num = TemperatureUnit_celsius(UnitValue(cur))
  /\ res.op = "fahrenheit" =>
       /\ UnitOf(cur) = "Fahrenheit" => res.num = Mag(cur)
       /\ UnitOf(cur) = "Celsius" => res.num = FAdd(FMul(Mag(cur), F_1_8), F_32_0)
       /\ res.num = TemperatureUnit_fahrenheit(UnitValue(cur))

\* Temperature<Celsius>(37.5).fahrenheit() has returned 99.5.
C1_Witness ==
  /\ res.op = "fahrenheit"
  /\ cur.ty = "Temperature"
  /\ UnitOf(cur) = "Celsius"
  /\ Mag(cur) = Lit(375, 10)
  /\ res.num = Lit(995, 10)
InRange(t, lo, hi) == FLe(lo, t) /\ FLe(t, hi)

\* C2: for every t in -50..150, convert_fahrenheit_to_celsius(
\* convert_celsius_to_fahrenheit(t)), which is what a Celsius value holds after
\* its conversion to Fahrenheit and back, is within 0.01 of t.
C2_RoundTrip ==
  (/\ cur # Nothing
   /\ nConv = 2
   /\ UnitOf(orig) = "Celsius"
   /\ InRange(Mag(orig), Lit(-50, 1), Lit(150, 1)))
  => /\ Mag(cur) = convert_fahrenheit_to_celsius(convert_celsius_to_fahrenheit(Mag(orig)))
     /\ Within001(Mag(cur), Mag(orig))

\* 147.8 degrees Celsius went to Fahrenheit and back and is no longer 147.8.
C2_Witness ==
  /\ cur # Nothing
  /\ nConv = 2
  /\ cur.ty = "Temperature"
  /\ UnitOf(orig) = "Celsius"
  /\ Mag(orig) = Lit(1478, 10)
  /\ Mag(cur) # Mag(orig)
  /\ Within001(Mag(cur), Mag(orig))
\* The Celsius reading of a value, written out: v, or (v - 32) * 0.55555.
CelsiusReading(o) ==
  IF UnitOf(o) = "Celsius" THEN Mag(o) ELSE FMul(FSub(Mag(o), F_32_0), F_0_55555)
\* The Fahrenheit reading of a value, written out: v, or v * 1.8 + 32.
FahrenheitReading(o) ==
  IF UnitOf(o) = "Fahrenheit" THEN Mag(o) ELSE FAdd(FMul(Mag(o), F_1_8), F_32_0)

\* |x - y| <= eps, or |x - y| <= max(|x|, |y|) * f32::EPSILON, on finite values.
Tol(x, y, eps) ==
  LET d == abs(FSub(x, y))
      largest == IF FLt(abs(x), abs(y)) THEN abs(y) ELSE abs(x)
  IN FLe(d, eps) \/ FLe(d, FMul(largest, EPSILON))

UnitEqState == res.op = "eq" /\ cur.ty = "Unit"

\* C3 as stated: two unit values of one variant are equal iff their magnitudes
\* differ by at most 0.01, at every magnitude.
C3_Original ==
  UnitEqState => (res.ok <=> Within001(Mag(cur), Mag(other)))

\* C3 as amended: two finite unit values of one variant are equal iff their
\* magnitudes differ by at most 0.01 or by at most max(|a|, |b|) * f32::EPSILON;
\* up to magnitude 83886 that is: iff they differ by at most 0.01.
C3_Eq ==
  (UnitEqState /\ IsFin(Mag(cur)) /\ IsFin(Mag(other))) =>
    /\ res.ok <=> Tol(Mag(cur), Mag(other), F_0_01)
    /\ (FLe(abs(Mag(cur)), Lit(83886, 1)) /\ FLe(abs(Mag(other)), Lit(83886, 1)))
         => (res.ok <=> Within001(Mag(cur), Mag(other)))

\* Celsius(0.0) == Celsius(0.001) was found equal and, in another state,
\* Fahrenheit(0.0) == Fahrenheit(0.09) was found different.
C3_Witness ==
  /\ UnitEqState
  /\ nConv = 0
  /\ \/ UnitOf(cur) = "Celsius" /\ Mag(cur) = Lit(0, 1) /\ Mag(other) = Lit(1, 1000) /\ res.ok
     \/ UnitOf(cur) = "Fahrenheit" /\ Mag(cur) = Lit(0, 1) /\ Mag(other) = Lit(9, 100) /\ ~res.ok

Converted == cur # Nothing /\ nConv >= 1 /\ res.op # "into_self"

\* C5: the conversion of a composite measurement to the other unit keeps the
\* humidity / pressure field as it is, stores the source temperature converted
\* by the unit formula, and stores nothing else.
C5_CompositeConversion ==
  (Converted /\ IsComposite(cur)) =>
    /\ Aux(cur) = Aux(prev)
    /\ UnitOf(cur) # UnitOf(prev)
    /\ UnitOf(prev) = "Celsius" => Mag(cur) = FAdd(FMul(Mag(prev), F_1_8), F_32_0)
    /\ UnitOf(prev) = "Fahrenheit" => Mag(cur) = FMul(FSub(Mag(prev), F_32_0), F_0_55555)
    /\ cur.ty = "TRH" => DOMAIN cur.val = {"relative_humidity", "temperature"}
    /\ cur.ty = "TBP" => DOMAIN cur.val = {"barometric_pressure", "temperature"}

\* (70.12 F, 45.59 %) has become a Celsius measurement with 45.59 %.
C5_Witness ==
  /\ Converted
  /\ cur.ty = "TRH"
  /\ nConv = 1
  /\ UnitOf(cur) = "Celsius"
  /\ Mag(prev) = Lit(7012, 100)
  /\ Aux(cur) = Lit(4559, 100)
  /\ Mag(cur) # Mag(prev)

\* C6: absolute_humidity() and altitude() apply the Celsius formula to the
\* Celsius reading of the temperature (v, or (v - 32) * 0.55555) and to the
\* untouched other field; for a Fahrenheit measurement that is the result of the
\* same method on the measurement converted to Celsius.
C6_UnitGeneric ==
  /\ res.op = "absolute_humidity" =>
       /\ res.num = calculate_absolute_humidity(CelsiusReading(cur), Aux(cur))
       /\ UnitOf(cur) = "Fahrenheit" =>
            res.num = TemperatureAndRelativeHumidity_absolute_humidity(
                        TemperatureAndRelativeHumidity_Celsius_from(cur.val))
  /\ res.op = "altitude" =>
       /\ res.num = calculate_altitude(CelsiusReading(cur), Aux(cur))
       /\ UnitOf(cur) = "Fahrenheit" =>
            res.num = TemperatureAndBarometricPressure_altitude(
                        TemperatureAndBarometricPressure_Celsius_from(cur.val))

\* absolute_humidity() was called on a measurement constructed in Fahrenheit.
C6_Witness ==
  /\ res.op = "absolute_humidity"
  /\ nConv = 0
  /\ UnitOf(cur) = "Fahrenheit"
  /\ Mag(cur) = Lit(7012, 100)
  /\ Aux(cur) = Lit(4559, 100)
  /\ res.num # calculate_absolute_humidity(Mag(cur), Aux(cur))

TemperatureState == cur # Nothing /\ cur.ty = "Temperature"
SourceAccessor == IF UnitOf(orig) = "Celsius" THEN "celsius" ELSE "fahrenheit"

\* The two halves of C7 on the states where they apply.
RoundTripEqual ==
  (TemperatureState /\ nConv = 2 /\ res.op = "eq" /\ other = orig) => res.ok
SingleConversionClose ==
  (TemperatureState /\ nConv = 1 /\ res.op = SourceAccessor)
    => Within001(res.num, Mag(orig))

\* C7 as stated: for every finite magnitude, a Temperature converted to the other
\* unit and back equals the original, and after one conversion its accessor
\* for the source unit is within 0.01 of the original magnitude.
C7_Original == RoundTripEqual /\ SingleConversionClose

\* C7 as amended: the same for every magnitude v with |v| <= 900.
C7_RoundTrip ==
  (cur # Nothing /\ FLe(abs(Mag(orig)), Lit(900, 1)))
    => (RoundTripEqual /\ SingleConversionClose)

\* Temperature<Fahrenheit>(-900) went to Celsius and back and equals the
\* original, though its magnitude is no longer the original's.
C7_Witness ==
  /\ TemperatureState
  /\ nConv = 2
  /\ res.op = "eq"
  /\ other = orig
  /\ UnitOf(orig) = "Fahrenheit"
  /\ Mag(orig) = Lit(-900, 1)
  /\ Mag(cur) # Mag(orig)
  /\ res.ok

CompositeEqState == res.op = "eq" /\ IsComposite(cur)

\* C8 as stated: two composite measurements of one unit variant are equal
\* exactly when their other fields are equal and their temperature magnitudes,
\* in the unit they are tagged with, differ by at most 0.01.
C8_Original ==
  CompositeEqState =>
    (res.ok <=> (FEq(Aux(cur), Aux(other)) /\ Within001(Mag(cur), Mag(other))))

\* C8 as amended: two composite measurements of one unit variant with finite
\* readings are equal exactly when their other fields are equal (the relative
\* humidities within f32::EPSILON, absolute or relative; the pressures ==) and
\* the Celsius readings of their temperatures differ by at most 0.01 (or by at
\* most f32::EPSILON relative).
C8_Eq ==
  (CompositeEqState /\ IsFin(CelsiusReading(cur)) /\ IsFin(CelsiusReading(other))) =>
    (res.ok <=>
       /\ IF cur.ty = "TRH" THEN Tol(Aux(cur), Aux(other), EPSILON)
          ELSE FEq(Aux(cur), Aux(other))
       /\ Tol(CelsiusReading(cur), CelsiusReading(other), F_0_01))

\* (21.18 C, 45.59 %) converted to Fahrenheit equals (70.12 F, 45.59 %).
C8_Witness ==
  /\ CompositeEqState
  /\ cur.ty = "TRH"
  /\ nConv = 1
  /\ UnitOf(cur) = "Fahrenheit"
  /\ Mag(prev) = Lit(2118, 100)
  /\ Mag(other) = Lit(7012, 100)
  /\ Aux(cur) = Lit(4559, 100)
  /\ Aux(other) = Lit(4559, 100)
  /\ Mag(cur) # Mag(other)
  /\ res.ok

UnitPath(u) == Mag(into(Obj("Unit", u)))
TemperaturePath(u) == Mag(into(Obj("Temperature", Temperature(u))))
HumidityPath(u, x) ==
  Mag(into(Obj("TRH", [relative_humidity |-> x, temperature |-> Temperature(u)])))
PressurePath(u, x) ==
  Mag(into(Obj("TBP", [barometric_pressure |-> x, temperature |-> Temperature(u)])))
TargetReading(o, target) == IF target = "Celsius" THEN celsius(o) ELSE fahrenheit(o)

\* C10: the conversion of a unit value, of a Temperature and of a composite
\* measurement store the same magnitude, which is the target-unit accessor of
\* the source; the reading in the target unit is the same before and after.
C10_PathsAgree ==
  Converted =>
    LET u == UnitValue(prev)
        t == Obj("Temperature", Temperature(u))
    IN /\ Mag(cur) = UnitPath(u)
       /\ Mag(cur) = TemperaturePath(u)
       /\ Mag(cur) = HumidityPath(u, Lit(4559, 100))
       /\ Mag(cur) = PressurePath(u, F_1013_25)
       /\ Mag(cur) = TargetReading(Obj("Unit", u), UnitOf(cur))
       /\ Mag(cur) = TargetReading(t, UnitOf(cur))
       /\ TargetReading(Obj("Temperature", Temperature(UnitValue(cur))), UnitOf(cur))
            = TargetReading(t, UnitOf(cur))

\* A unit value Fahrenheit(60.31) has been converted into Celsius.
C10_Witness ==
  /\ Converted
  /\ res = NoResult
  /\ cur.ty = "Unit"
  /\ nConv = 1
  /\ UnitOf(cur) = "Celsius"
  /\ Mag(prev) = Lit(6031, 100)
  /\ Mag(cur) = celsius(prev)
====
